---- MODULE Spec2Model ----
(***************************************************************************)
(* Model of pygsp's Chebyshev polynomial filters                            *)
(*   src/pygsp/filters/approximations.py   class Chebyshev                 *)
(*   src/pygsp/operators.py                compute_cheby_coeff             *)
(*                                                                         *)
(* Arrays are numpy arrays: a shape and the elements in row-major order.   *)
(* Elements are integers, and the inputs are those on which the code's     *)
(* arithmetic is exact (lmax divides 2*L and 2*x), so that equalities are  *)
(* equalities of the values the code computes, free of rounding.           *)
(* The Laplacian is a scipy sparse matrix, as create_laplacian builds it,  *)
(* so that L.__rmul__(x) is the matrix product x @ L.                      *)
(***************************************************************************)
EXTENDS Integers, Sequences, FiniteSets, TLC

VARIABLES
    pc,             \* "new": no Chebyshev object yet; "idle"; "done": a call has returned or raised
    G,              \* the graph: its attributes N, L (sparse Laplacian) and, when set, lmax
    self,           \* the Chebyshev object: its attributes order, Nf and, when set,
                    \* coefficients (self._coefficients)
    src,            \* what __init__ was given: [kind, ndim, shape]
    sig,            \* the caller's signal object, as it is after the call
    sigIn,          \* the value the caller passed
    last            \* the last call: its inputs, and what it returned or raised

vars == <<pc, G, self, src, sig, sigIn, last>>

\* ------------------------------------------------------------------ bounds
MaxK == 4           \* length of the order axis of a coefficient array (K in the code)
MaxF == 2           \* channels: Fout, Fin
MaxM == 2           \* signals in a batch
MaxN == 2           \* nodes of the graph
MaxX == 2           \* largest spectral point given to evaluate
MaxLmax == 4        \* largest G.lmax
MaxOrder == 2       \* largest order m given to compute_cheby_coeff
MaxNdim == 4        \* most dimensions of an array given to __init__

DefaultOrder == 30

None == "None"

\* hasattr(obj, name): objects are records of their attributes
hasattr(obj, name) == name \in DOMAIN obj

\* ------------------------------------------------------------- arithmetic
Max(a, b) == IF a >= b THEN a ELSE b

RECURSIVE SumSeq(_)
SumSeq(s) == IF Len(s) = 0 THEN 0 ELSE s[1] + SumSeq(Tail(s))

RECURSIVE Prod(_)
Prod(s) == IF Len(s) = 0 THEN 1 ELSE s[1] * Prod(Tail(s))

\* ---------------------------------------------------------------- ndarray
\* (s \o <<>> is s: it has TLC compute the elements once, when the array is made)
Arr(shape, data) == [shape |-> shape \o <<>>, data |-> data \o <<>>]

Scalar(v) == Arr(<<>>, <<v>>)

Ndim(a) == Len(a.shape)

\* the stride (in elements) of axis i of a C-contiguous array
Stride(shape, i) == Prod(SubSeq(shape, i + 1, Len(shape)))

\* the multi-index (1-based) of the j-th element
Unravel(shape, j) ==
    [i \in 1..Len(shape) |-> (((j - 1) \div Stride(shape, i)) % shape[i]) + 1]

\* numpy broadcasting: shapes are aligned on their last axes
PadShape(shape, r) ==
    [i \in 1..r |-> IF i <= r - Len(shape) THEN 1 ELSE shape[i - (r - Len(shape))]]

BRank(sa, sb) == Max(Len(sa), Len(sb))

BCompatible(sa, sb) ==
    LET r == BRank(sa, sb)
        pa == PadShape(sa, r)
        pb == PadShape(sb, r)
    IN  \A i \in 1..r : pa[i] = pb[i] \/ pa[i] = 1 \/ pb[i] = 1

BShape(sa, sb) ==
    LET r == BRank(sa, sb)
        pa == PadShape(sa, r)
        pb == PadShape(sb, r)
    IN  [i \in 1..r |-> IF pa[i] = 1 THEN pb[i] ELSE pa[i]]

\* the element of a that takes part in element idx of the broadcast result
BElem(a, r, idx) ==
    LET pa == PadShape(a.shape, r)
    IN  a.data[1 + SumSeq([i \in 1..r |->
                IF pa[i] = 1 THEN 0 ELSE (idx[i] - 1) * Stride(pa, i)])]

Apply(op, u, v) ==
    CASE op = "add" -> u + v
      [] op = "sub" -> u - v
      [] op = "mul" -> u * v

\* a + b, a - b, a * b of two arrays whose shapes broadcast
\* (operands of the same shape are the case where no index is mapped)
BinOp(op, a, b) ==
    LET r == BRank(a.shape, b.shape)
        sh == BShape(a.shape, b.shape)
    IN  IF a.shape = b.shape
        THEN Arr(a.shape, [j \in 1..Len(a.data) |-> Apply(op, a.data[j], b.data[j])])
        ELSE Arr(sh, [j \in 1..Prod(sh) |->
                LET idx == Unravel(sh, j)
                IN  Apply(op, BElem(a, r, idx), BElem(b, r, idx))])

Add(a, b) == BinOp("add", a, b)
Sub(a, b) == BinOp("sub", a, b)
Mul(a, b) == BinOp("mul", a, b)
Scale(k, a) == Mul(Scalar(k), a)

\* (np.ones(shape))
np_ones(shape) == Arr(shape, [j \in 1..Prod(shape) |-> 1])

Zeros(shape) == Arr(shape, [j \in 1..Prod(shape) |-> 0])
OnesLike(a) == Arr(a.shape, [j \in 1..Prod(a.shape) |-> 1])

\* a.reshape(shape), and the assignment a.shape = shape: the same elements
Reshape(a, shape) == Arr(shape, a.data)

\* a.squeeze(): the axes of length 1 are dropped
Squeeze(a) == Arr(SelectSeq(a.shape, LAMBDA d : d # 1), a.data)

\* a[k] for k counted from 0, as numpy counts
Item(a, k) ==
    LET sub == Tail(a.shape)
        n == Prod(sub)
    IN  Arr(sub, SubSeq(a.data, k * n + 1, (k + 1) * n))

\* ------------------------------------------------------------------ graph
\* the weight matrix of the path graph on n nodes, unit weights
PathW(n) ==
    Arr(<<n, n>>, [j \in 1..(n * n) |->
        LET r == ((j - 1) \div n) + 1
            c == ((j - 1) % n) + 1
        IN  IF r - c = 1 \/ c - r = 1 THEN 1 ELSE 0])

\* the combinatorial Laplacian diagflat(W.sum(1)) - W, 0 for a single node
create_laplacian(W) ==
    LET n == W.shape[1]
        deg(r) == SumSeq(SubSeq(W.data, (r - 1) * n + 1, r * n))
    IN  IF W.shape = <<1, 1>>
        THEN Arr(<<1, 1>>, <<0>>)
        ELSE Arr(<<n, n>>, [j \in 1..(n * n) |->
                LET r == ((j - 1) \div n) + 1
                    c == ((j - 1) % n) + 1
                IN  (IF r = c THEN deg(r) ELSE 0) - W.data[j]])

\* the graphs given to compute_cheby_coeff: lmax may be missing, or not positive
Graphs ==
    {[N |-> n, L |-> create_laplacian(PathW(n)), lmax |-> l] :
        n \in 1..MaxN, l \in -1..MaxLmax}
    \cup {[N |-> n, L |-> create_laplacian(PathW(n))] : n \in 1..MaxN}

\* the graphs a Chebyshev object is built on: lmax > 0, and 2 / lmax an integer, so
\* that the rescaling of the Laplacian and of the spectral points is exact
FilterGraphs ==
    {[N |-> n, L |-> create_laplacian(PathW(n)), lmax |-> l] :
        n \in {1, MaxN}, l \in {d \in 1..MaxLmax : 2 % d = 0}}

\* G.lmax is set and 2 * L / lmax is an exact division
ExactL(g) ==
    /\ hasattr(g, "lmax")
    /\ g.lmax > 0
    /\ \A j \in 1..Len(g.L.data) : (2 * g.L.data[j]) % g.lmax = 0

\* sparse.identity(G.N)
Identity(n) ==
    Arr(<<n, n>>, [j \in 1..(n * n) |->
        IF ((j - 1) \div n) = ((j - 1) % n) THEN 1 ELSE 0])

\* L = 2 * L / G.lmax - I : the spectrum [0, lmax] goes to [-1, 1]
RescaleL(g) ==
    Sub(Arr(g.L.shape, [j \in 1..Len(g.L.data) |-> (2 * g.L.data[j]) \div g.lmax]),
        Identity(g.N))

\* x = 2 * x / G.lmax - 1
RescaleX(x, lmax) ==
    Sub(Arr(x.shape, [j \in 1..Len(x.data) |-> (2 * x.data[j]) \div lmax]), Scalar(1))

\* L.__rmul__(x) of a sparse L and a 2-D x: the matrix product x @ L
RMul(L, x) ==
    LET R == x.shape[1]
        n == x.shape[2]
        m == L.shape[2]
    IN  Arr(<<R, m>>, [j \in 1..(R * m) |->
            LET r == ((j - 1) \div m) + 1
                c == ((j - 1) % m) + 1
            IN  SumSeq([i \in 1..n |-> x.data[(r - 1) * n + i] * L.data[(i - 1) * m + c]])])

\* -------------------------------------------------------------- exceptions
NoError == [exc |-> "none", msg |-> "none"]
Raise(exc, msg) == [exc |-> exc, msg |-> msg]

\* np.einsum('oi,min->mon', c, x): c is (Fout, Fin), x is (M, Fin, N); an axis of
\* length 1 is broadcast against the other operand's axis of the same label
EinsumOK(c, x) ==
    \/ c.shape[2] = x.shape[2]
    \/ c.shape[2] = 1
    \/ x.shape[2] = 1

Einsum(c, x) ==
    LET Fo == c.shape[1]
        Fc == c.shape[2]
        M == x.shape[1]
        Fx == x.shape[2]
        n == x.shape[3]
        Fi == Max(Fc, Fx)
        cAt(o, i) == c.data[(o - 1) * Fc + (IF Fc = 1 THEN 1 ELSE i)]
        xAt(m, i, k) == x.data[((m - 1) * Fx + (IF Fx = 1 THEN 1 ELSE i) - 1) * n + k]
    IN  Arr(<<M, Fo, n>>, [j \in 1..(M * Fo * n) |->
            LET idx == Unravel(<<M, Fo, n>>, j)
            IN  SumSeq([i \in 1..Fi |-> cAt(idx[2], i) * xAt(idx[1], i, idx[3])])])

\* ---------------------------------------------- Chebyshev: the filter methods
\* what a call of a filter method does: the value it returns, or the exception it
\* raises; the diffusion steps (dot) and channel mixings (mult) it ran; and the
\* caller's signal object as the call leaves it
Res(val, ndot, nmult, s) ==
    [err |-> NoError, val |-> val, ndot |-> ndot, nmult |-> nmult, sig |-> s]

Fail(err, ndot, nmult, s) ==
    [err |-> err, ndot |-> ndot, nmult |-> nmult, sig |-> s]

\* (x0 = s: the caller's array object itself)
view_alias(s) == [shape |-> s.shape, data |-> s.data, base |-> "self"]

\* x0 = s.view(): a new array object on the caller's elements, with a shape of its own
view(s) == [shape |-> s.shape, data |-> s.data, base |-> "view"]

\* x.shape = shape
SetShape(x, shape) == [x EXCEPT !.shape = shape]

\* the caller's array once the call is over: its shape is the one last assigned to
\* the object x, if x is the caller's array itself
Caller(s, x) == IF x.base = "self" THEN Arr(x.shape, s.data) ELSE s

\* (einsum('oi,min->min', c, x): the input channels are not summed)
rec_mult_min(c, x, M, Fin, N) ==
    LET xs == SetShape(x, <<M, Fin, N>>)
        Fo == c.shape[1]
        Fc == c.shape[2]
        Fi == Max(Fc, Fin)
        colsum(i) == SumSeq([o \in 1..Fo |-> c.data[(o - 1) * Fc + (IF Fc = 1 THEN 1 ELSE i)]])
    IN  IF EinsumOK(c, xs)
        THEN [x |-> xs, ok |-> TRUE,
              val |-> Arr(<<M, Fi, N>>, [j \in 1..(M * Fi * N) |->
                        LET idx == Unravel(<<M, Fi, N>>, j)
                        IN  colsum(idx[2]) *
                            xs.data[((idx[1] - 1) * Fin + (IF Fin = 1 THEN 1 ELSE idx[2]) - 1) * N
                                    + idx[3]]])]
        ELSE [x |-> xs, ok |-> FALSE]

\* mult of _filter_recursive: x.shape = (M, Fin, N); einsum('oi,min->mon', c, x)
rec_mult(c, x, M, Fin, N) ==
    LET xs == SetShape(x, <<M, Fin, N>>)
    IN  IF EinsumOK(c, xs)
        THEN [x |-> xs, ok |-> TRUE, val |-> Einsum(c, xs)]
        ELSE [x |-> xs, ok |-> FALSE]

\* dot of _filter_recursive: x.shape = (M * Fin, N); x @ L
rec_dot(L, x, M, Fin, N) ==
    LET xs == SetShape(x, <<M * Fin, N>>)
    IN  [x |-> xs, val |-> RMul(L, xs)]

\* x2 = 2 * dot(L, x1) - x0
rec_next(d, x0) == Sub(Scale(2, d), x0)

\* for k in range(2, K): ...
RECURSIVE rec_loop(_, _, _, _, _, _, _, _, _, _, _)
rec_loop(k, K, c, L, M, Fin, N, x0, x1, result, ndot) ==
    IF k >= K
    THEN [val |-> result, ndot |-> ndot]
    ELSE LET d == rec_dot(L, x1, M, Fin, N)
             x2 == rec_next(d.val, x0) @@ [base |-> "own"]
             m == rec_mult(Item(c, k), x2, M, Fin, N)
         IN  rec_loop(k + 1, K, c, L, M, Fin, N, d.x, m.x, Add(result, m.val), ndot + 1)

filter_recursive(self_, L, s) ==
    IF ~hasattr(self_, "coefficients")
    THEN Fail(Raise("AttributeError", "_coefficients"), 0, 0, s)
    ELSE IF Ndim(self_.coefficients) # 3
    THEN Fail(Raise("ValueError", "unpack"), 0, 0, s)
    ELSE IF ~hasattr(s, "shape")
    THEN Fail(Raise("AttributeError", "shape"), 0, 0, s)
    ELSE IF Ndim(s) # 3
    THEN Fail(Raise("ValueError", "unpack"), 0, 0, s)
    ELSE
    LET c == self_.coefficients
        K == c.shape[1]
        M == s.shape[1]
        Fin == s.shape[2]
        N == s.shape[3]
        x0 == view(s)
        m0 == rec_mult(Item(c, 0), x0, M, Fin, N)
    IN  IF ~m0.ok
        THEN Fail(Raise("ValueError", "einsum"), 0, 0, Caller(s, m0.x))
        ELSE IF K <= 1
        THEN Res(m0.val, 0, 1, Caller(s, m0.x))
        ELSE
        LET d1 == rec_dot(L, m0.x, M, Fin, N)
            m1 == rec_mult(Item(c, 1), d1.val @@ [base |-> "own"], M, Fin, N)
            r == rec_loop(2, K, c, L, M, Fin, N, d1.x, m1.x, Add(m0.val, m1.val), 1)
        IN  Res(r.val, r.ndot, r.ndot + 1, Caller(s, d1.x))

\* mult of _filter_clenshaw
clen_mult(c, s) == Einsum(c, s)

\* dot of _filter_clenshaw: the buffer is flattened to (M * Fout, N), multiplied,
\* and both it and the product are given the shape (M, Fout, N)
clen_dot(L, x, M, Fout, N) ==
    LET xs == Reshape(x, <<M * Fout, N>>)
        y == RMul(L, xs)
    IN  Reshape(y, <<M, Fout, N>>)

\* b = mult(c[k], s) + 2 * dot(L, b1) - b2
clen_next(m, d, b2) == Sub(Add(m, Scale(2, d)), b2)

\* (the last step written as the steps of the loop are: 2 * dot)
clen_last_doubled(m, d, b2) == Sub(Add(m, Scale(2, d)), b2)

\* return mult(c[0], s) + dot(L, b1) - b2
clen_last(m, d, b2) == Sub(Add(m, d), b2)

\* for k in range(K-2, 0, -1): ...
RECURSIVE clen_loop(_, _, _, _, _, _, _, _, _, _)
clen_loop(k, c, L, s, M, Fout, N, b1, b2, ndot) ==
    IF k <= 0
    THEN [b1 |-> b1, b2 |-> b2, ndot |-> ndot]
    ELSE LET b == clen_next(clen_mult(Item(c, k), s), clen_dot(L, b1, M, Fout, N), b2)
         IN  clen_loop(k - 1, c, L, s, M, Fout, N, b, b1, ndot + 1)

filter_clenshaw(self_, L, s) ==
    IF ~hasattr(self_, "coefficients")
    THEN Fail(Raise("AttributeError", "_coefficients"), 0, 0, s)
    ELSE IF Ndim(self_.coefficients) # 3
    THEN Fail(Raise("ValueError", "unpack"), 0, 0, s)
    ELSE IF ~hasattr(s, "shape")
    THEN Fail(Raise("AttributeError", "shape"), 0, 0, s)
    ELSE IF Ndim(s) # 3
    THEN Fail(Raise("ValueError", "unpack"), 0, 0, s)
    ELSE
    LET c == self_.coefficients
        K == c.shape[1]
        Fout == c.shape[2]
        M == s.shape[1]
        N == s.shape[3]
    IN  IF ~EinsumOK(Item(c, 0), s)
        THEN Fail(Raise("ValueError", "einsum"), 0, 0, s)
        ELSE
        LET b1 == IF K >= 2 THEN clen_mult(Item(c, K - 1), s) ELSE Zeros(<<M, Fout, N>>)
            r == clen_loop(K - 2, c, L, s, M, Fout, N, b1, Scalar(0), 0)
            y == clen_last(clen_mult(Item(c, 0), s), clen_dot(L, r.b1, M, Fout, N), r.b2)
        IN  Res(y, r.ndot + 1, (IF K >= 2 THEN K ELSE 1), s)

\* the attributes _filter_<method> of a Chebyshev object
FilterMethods == {"recursive", "clenshaw"}

\* Chebyshev._filter(s, method, _)
\* the try block catches the AttributeError of a missing method, and any
\* AttributeError raised while the method runs
filter(self_G, self_, s, method) ==
    LET L == RescaleL(self_G)
        meth == IF method = None THEN "recursive" ELSE method
        r == IF meth = "recursive"
             THEN filter_recursive(self_, L, s)
             ELSE filter_clenshaw(self_, L, s)
    IN  IF meth \notin FilterMethods
        THEN Fail(Raise("ValueError", "Unknown method"), 0, 0, s)
        ELSE IF r.err.exc = "AttributeError"
        THEN [r EXCEPT !.err = Raise("ValueError", "Unknown method")]
        ELSE r

\* -------------------------------------------- Chebyshev: the evaluate methods
\* x2 = 2 * x * x1 - x0
eval_next(x, x1, x0) == Sub(Mul(Scale(2, x), x1), x0)

\* for k in range(2, K): ...
RECURSIVE eval_loop(_, _, _, _, _, _, _)
eval_loop(k, K, c, x, x0, x1, result) ==
    IF k >= K
    THEN result
    ELSE LET x2 == eval_next(x, x1, x0)
         IN  eval_loop(k + 1, K, c, x, x1, x2, Add(result, Mul(Item(c, k), x2)))

evaluate_recursive(c, x) ==
    LET K == c.shape[1]
        x0 == OnesLike(x)
        r0 == Mul(Item(c, 0), x0)
    IN  IF K > 1
        THEN eval_loop(2, K, c, x, x0, x, Add(r0, Mul(Item(c, 1), x)))
        ELSE r0

\* b = c[k] + 2 * x * b1 - b2
eval_clen_next(ck, x, b1, b2) == Sub(Add(ck, Mul(Scale(2, x), b1)), b2)

\* (the last step written as the steps of the loop are: 2 * x * b1)
eval_clen_last_doubled(c0, x, b1, b2) == Sub(Add(c0, Mul(Scale(2, x), b1)), b2)

\* return c[0] + x * b1 - b2
eval_clen_last(c0, x, b1, b2) == Sub(Add(c0, Mul(x, b1)), b2)

\* for k in range(K-2, 0, -1): ...
RECURSIVE eval_clen_loop(_, _, _, _, _)
eval_clen_loop(k, c, x, b1, b2) ==
    IF k <= 0
    THEN [b1 |-> b1, b2 |-> b2]
    ELSE eval_clen_loop(k - 1, c, x, eval_clen_next(Item(c, k), x, b1, b2), b1)

evaluate_clenshaw(c, x) ==
    LET K == c.shape[1]
        b1 == IF K >= 2 THEN Mul(Item(c, K - 1), OnesLike(x)) ELSE Scalar(0)
        r == eval_clen_loop(K - 2, c, x, b1, Scalar(0))
    IN  eval_clen_last(Item(c, 0), x, r.b1, r.b2)

\* np.cos(k * np.arccos(v)) at the points where it is an integer
CosKArccos(k, v) ==
    CASE v = 1 -> 1
      [] v = -1 -> IF k % 2 = 0 THEN 1 ELSE -1
      [] v = 0 -> IF k % 2 = 1 THEN 0 ELSE IF k % 4 = 0 THEN 1 ELSE -1

\* arccos is defined on [-1, 1]; elsewhere numpy gives nan
InArccosDomain(x) == \A j \in 1..Len(x.data) : x.data[j] \in -1..1

\* for k in range(K): result += c[k] * np.cos(k * x)
RECURSIVE direct_loop(_, _, _, _, _)
direct_loop(k, K, c, x, result) ==
    IF k >= K
    THEN result
    ELSE direct_loop(k + 1, K, c, x,
            Add(result, Mul(Item(c, k),
                Arr(x.shape, [j \in 1..Len(x.data) |-> CosKArccos(k, x.data[j])]))))

evaluate_direct(c, x) ==
    direct_loop(0, c.shape[1], c, x, Zeros(<<c.shape[2]>> \o x.shape))

\* the attributes _evaluate_<method> of a Chebyshev object
EvaluateMethods == {"direct", "recursive", "clenshaw"}

Ones(n) == [i \in 1..n |-> 1]

SeqMin(s) == CHOOSE v \in {s[i] : i \in 1..Len(s)} : \A i \in 1..Len(s) : v <= s[i]
SeqMax(s) == CHOOSE v \in {s[i] : i \in 1..Len(s)} : \A i \in 1..Len(s) : v >= s[i]

\* what a call of evaluate does: the value or the exception, the terms of the
\* series it computed, and whether it logged the out-of-domain warning
ERes(val, nterms, warned) ==
    [err |-> NoError, val |-> val, nterms |-> nterms, warned |-> warned]

EFail(err, warned) == [err |-> err, nterms |-> 0, warned |-> warned]

\* Chebyshev._evaluate(x, method)
evaluate(self_G, self_, x, method) ==
    LET warned == SeqMin(x.data) < 0 \/ SeqMax(x.data) > self_G.lmax
        xr == RescaleX(x, self_G.lmax)
        meth == IF method = None THEN "recursive" ELSE method
    IN  IF ~hasattr(self_, "coefficients")
        THEN EFail(Raise("AttributeError", "_coefficients"), warned)
        ELSE IF Ndim(self_.coefficients) # 3
        THEN EFail(Raise("ValueError", "unpack"), warned)
        ELSE
        LET K == self_.coefficients.shape[1]
            Fout == self_.coefficients.shape[2]
            Fin == self_.coefficients.shape[3]
            c == Reshape(self_.coefficients, <<K, Fout * Fin>> \o Ones(Ndim(x)))
            y == CASE meth = "recursive" -> evaluate_recursive(c, xr)
                   [] meth = "clenshaw" -> evaluate_clenshaw(c, xr)
                   [] meth = "direct" -> evaluate_direct(c, xr)
        IN  IF meth \notin EvaluateMethods
            THEN EFail(Raise("ValueError", "Unknown method"), warned)
            ELSE ERes(Squeeze(Reshape(y, <<Fout, Fin>> \o x.shape)), K, warned)

\* ------------------------------------------- the coefficients a method reads
\* (result += c[1] * x1 without the test K > 1)
rec_reads_unguarded(K) == <<0, 1>> \o [i \in 1..(K - 2) |-> i + 1]

\* the indices k of the c[k] that _evaluate_recursive and _filter_recursive read, in
\* order: c[0]; c[1] if K > 1; c[k] for k in range(2, K)
rec_reads(K) ==
    <<0>> \o (IF K > 1 THEN <<1>> ELSE <<>>) \o [i \in 1..(K - 2) |-> i + 1]

\* those that _evaluate_clenshaw and _filter_clenshaw read: c[K-1] if K >= 2; c[k]
\* for k in range(K-2, 0, -1); c[0]
clen_reads(K) ==
    (IF K >= 2 THEN <<K - 1>> ELSE <<>>) \o [i \in 1..(K - 2) |-> K - 1 - i] \o <<0>>

\* those that _evaluate_direct reads: c[k] for k in range(K)
direct_reads(K) == [i \in 1..K |-> i - 1]

\* the indices read by a call that returned the value r.val; a call that raised
\* is not followed
reads(self_, method, r) ==
    LET meth == IF method = None THEN "recursive" ELSE method
    IN  IF ~hasattr(r, "val")
        THEN <<>>
        ELSE CASE meth = "recursive" -> rec_reads(self_.coefficients.shape[1])
               [] meth = "clenshaw" -> clen_reads(self_.coefficients.shape[1])
               [] meth = "direct" -> direct_reads(self_.coefficients.shape[1])

\* ------------------------------------------------------- Chebyshev.__init__
\* Chebyshev._compute_coefficients(filters): its body is `pass`
compute_coefficients(self_, filters) == self_

\* (np.expand_dims(a, 0): the new axis comes first)
expand_dims_front(a) == Arr(<<1>> \o a.shape, a.data)

\* np.expand_dims(a, -1)
expand_dims(a) == Arr(Append(a.shape, 1), a.data)

\* while self._coefficients.ndim < 3: expand_dims
RECURSIVE expand_to_3(_)
expand_to_3(a) == IF Ndim(a) < 3 THEN expand_to_3(expand_dims(a)) ELSE a

\* a Filter object has the attribute Nf; an array has not, and the except branch runs
init(filters, order_) ==
    LET self0 == [order |-> order_]
    IN  IF hasattr(filters, "Nf")
        THEN compute_coefficients(self0, filters) @@ [Nf |-> filters.Nf]
        ELSE LET c == expand_to_3(filters.array)
             IN  self0 @@ [coefficients |-> c, Nf |-> c.shape[2]]

\* ------------------------------------------------------ compute_cheby_coeff
\* np.arange(1, N)
Arange1(N) == [j \in 1..(N - 1) |-> j]

\* N is <<>> for None (the default) and <<n>> for n.
\* est is what utils.estimate_lmax(G) returns when G.lmax is not set.
\* The coefficient of order o is a sum over the nodes np.arange(1, N), with
\* cos(pi * (o-1) * (j-0.5) / N): the nodes and the factor of the cosine are kept
compute_cheby_coeff(g, m, N, est) ==
    LET N1 == IF N = <<>> \/ N = <<0>> THEN m + 1 ELSE N[1]
        lmax == IF hasattr(g, "lmax") THEN g.lmax ELSE est
        a_len == Max(lmax, 0)
    IN  IF a_len < 3
        THEN [err |-> Raise("IndexError", "a_arange"), lmax |-> lmax, Nq |-> N1]
        ELSE IF m + 1 < 0
        THEN [err |-> Raise("ValueError", "negative dimensions"), lmax |-> lmax, Nq |-> N1]
        ELSE [err |-> NoError,
              val |-> [o1 \in 1..(m + 1) |-> [nodes |-> Arange1(N1), freq |-> (o1 - 1) - 1]],
              lmax |-> lmax, Nq |-> N1]

\* ------------------------------------------------------------------ inputs
\* the elements of the input arrays: -2, 3, -1, 2, 1, -2, ... for seed 1
Ramp(seed, n) == [j \in 1..n |-> <<1, -2, 3, -1, 2>>[((j * seed) % 5) + 1]]

Seeds == {1, 2}

\* the shapes of the arrays given to __init__: (K, Fout, Fin), cut to its first
\* d axes, or followed by axes of length 1
InputShapes ==
    {SubSeq(<<k, fo, fi>> \o Ones(MaxNdim), 1, d) :
        k \in 1..MaxK, fo \in 1..MaxF, fi \in 1..MaxF, d \in 0..MaxNdim}

CoefArray(sh, seed) == [kind |-> "array", array |-> Arr(sh, Ramp(seed, Prod(sh)))]

\* every shape with the elements of seed 1, the 3-D shapes with those of each seed
ArrayInputs ==
    {CoefArray(sh, 1) : sh \in InputShapes}
        \cup {CoefArray(sh, seed) : sh \in {s \in InputShapes : Len(s) = 3}, seed \in Seeds}

FilterInputs == {[kind |-> "Filter", Nf |-> n] : n \in 1..MaxF}

\* the signal batches (M, Fin, N) on a graph of n nodes, and a plain list, which
\* has no shape
Signals(n) ==
    {Arr(<<m, f, n>>, Ramp(3, m * f * n)) : m \in {1, MaxM}, f \in 1..MaxF}
        \cup {[data |-> Ramp(3, n)]}

XArrays ==
    {Arr(<<1>>, <<a>>) : a \in -1..MaxX} \cup {Arr(<<2>>, <<0, MaxX>>)}

MethodNames == {None, "recursive", "clenshaw", "direct", "bogus"}

NoCall == [op |-> "none"]

\* ----------------------------------------------------------------- actions
NoObject == [exists |-> FALSE]

Init ==
    /\ pc = "new"
    /\ G \in FilterGraphs
    /\ self = NoObject
    /\ src = None
    /\ sig = None
    /\ sigIn = None
    /\ last = NoCall

\* what utils.estimate_lmax(G) may return: a positive bound of the spectrum
EstimatedLmax == 1..MaxLmax

\* c = compute_cheby_coeff(f, G, m, N); G.lmax is set when it was missing
ComputeChebyCoeff ==
    /\ pc = "new"
    /\ \E m \in -2..MaxOrder, N \in {<<>>} \cup {<<n>> : n \in 0..(MaxOrder + 1)},
          est \in EstimatedLmax :
        LET r == compute_cheby_coeff(G, m, N, est)
        IN  /\ hasattr(G, "lmax") => est = 1
            /\ G' = [N |-> G.N, L |-> G.L, lmax |-> r.lmax]
            /\ last' = [op |-> "compute", m |-> m, N |-> N, had_lmax |-> hasattr(G, "lmax")] @@ r
    /\ pc' = "computed"
    /\ UNCHANGED <<self, src, sig, sigIn>>

ReturnCompute ==
    /\ pc = "computed"
    /\ pc' = "new"
    /\ last' = NoCall
    /\ UNCHANGED <<G, self, src, sig, sigIn>>

\* Chebyshev(G, filters): filters is a Filter object or an array of coefficients
Construct ==
    /\ pc = "new"
    /\ \E filters \in FilterInputs \cup ArrayInputs :
        /\ self' = init(filters, DefaultOrder)
        /\ src' = IF filters.kind = "Filter"
                  THEN [kind |-> "Filter"]
                  ELSE [kind |-> "array", ndim |-> Ndim(filters.array),
                        shape |-> filters.array.shape]
    /\ pc' = "idle"
    /\ UNCHANGED <<G, sig, sigIn, last>>

\* self.filter(s, method)
Filter ==
    /\ pc = "idle"
    /\ ExactL(G)
    /\ \E s \in Signals(G.N), method \in MethodNames :
        LET r == filter(G, self, s, method)
        IN  /\ sigIn' = s
            /\ sig' = r.sig
            /\ last' = [op |-> "filter", method |-> method,
                         reads |-> reads(self, method, r)] @@ r
    /\ pc' = "done"
    /\ UNCHANGED <<G, self, src>>

\* self.evaluate(x, method)
Evaluate ==
    /\ pc = "idle"
    /\ hasattr(G, "lmax")
    /\ G.lmax > 0
    /\ \E x \in XArrays, method \in MethodNames :
        /\ \A j \in 1..Len(x.data) : (2 * x.data[j]) % G.lmax = 0
        /\ method = "direct" => InArccosDomain(RescaleX(x, G.lmax))
        /\ last' = [op |-> "evaluate", method |-> method, x |-> x,
                     reads |-> reads(self, method, evaluate(G, self, x, method))]
                        @@ evaluate(G, self, x, method)
    /\ pc' = "done"
    /\ UNCHANGED <<G, self, src, sig, sigIn>>

\* the caller takes the result, or handles the exception
Return ==
    /\ pc = "done"
    /\ pc' = "idle"
    /\ last' = NoCall
    /\ sig' = None
    /\ sigIn' = None
    /\ UNCHANGED <<G, self, src>>

\* the Chebyshev object: built once, then used by any number of calls
Next ==
    \/ Construct
    \/ Filter
    \/ Evaluate
    \/ Return

Spec == Init /\ [][Next]_vars

\* the coefficient computer, called on any graph
InitCoeff ==
    /\ pc = "new"
    /\ G \in Graphs
    /\ self = NoObject
    /\ src = None
    /\ sig = None
    /\ sigIn = None
    /\ last = NoCall

NextCoeff ==
    \/ ComputeChebyCoeff
    \/ ReturnCompute

SpecCoeff == InitCoeff /\ [][NextCoeff]_vars

\* ------------------------------------------------------------------ claims
Returned(op) == pc = "done" /\ last.op = op
Succeeded == hasattr(last, "val")

\* the object holds a coefficient tensor (K, Fout, Fin)
HasTensor == hasattr(self, "coefficients") /\ Ndim(self.coefficients) = 3

\* s is a signal batch (M, Fin, N)
IsBatch(s) == hasattr(s, "shape") /\ Ndim(s) = 3

\* a call of filter with a method that exists, on a tensor and a batch
FilterCall ==
    /\ Returned("filter")
    /\ last.method \in {None, "recursive", "clenshaw"}
    /\ HasTensor
    /\ IsBatch(sigIn)

SameFin == sigIn.shape[2] = self.coefficients.shape[3]

OtherMethod == IF last.method = "clenshaw" THEN "recursive" ELSE "clenshaw"

\* C1: on a coefficient tensor (K, Fout, Fin) and a signal batch (M, Fin, N), filter
\* with 'recursive' and filter with 'clenshaw' both return, and return the same
\* array, element by element.
C1_RecursiveEqualsClenshaw ==
    (FilterCall /\ SameFin) =>
        /\ Succeeded
        /\ hasattr(filter(G, self, sigIn, OtherMethod), "val")
        /\ last.val = filter(G, self, sigIn, OtherMethod).val

\* a Clenshaw filtering whose loop runs twice, on two signals of two channels
C1_Witness ==
    /\ FilterCall /\ SameFin /\ Succeeded
    /\ last.method = "clenshaw"
    /\ self.coefficients.shape = <<4, 2, 2>>
    /\ sigIn.shape = <<2, 2, 2>>
    /\ last.ndot = 3

\* T_k(v): T_0 = 1, T_1 = v, T_k = 2 v T_{k-1} - T_{k-2}
RECURSIVE ChebT(_, _)
ChebT(k, v) ==
    IF k = 0 THEN 1 ELSE IF k = 1 THEN v ELSE 2 * v * ChebT(k - 1, v) - ChebT(k - 2, v)

\* the series sum_k c[k, f] * T_k(2x/lmax - 1) of filter f at point p
Series(c, lmax, x, f, p) ==
    LET F == c.shape[2] * c.shape[3]
    IN  SumSeq([k1 \in 1..c.shape[1] |->
            c.data[(k1 - 1) * F + f] * ChebT(k1 - 1, (2 * x.data[p]) \div lmax - 1)])

\* C2: evaluate with 'clenshaw' and with 'recursive' return, at every point x and
\* for every filter, the sum over k of c_k * T_k(x') with x' = 2x/lmax - 1.
C2_EvaluateIsChebyshevSeries ==
    (Returned("evaluate") /\ last.method \in {None, "recursive", "clenshaw"} /\ HasTensor) =>
        LET c == self.coefficients
            F == c.shape[2] * c.shape[3]
            P == Len(last.x.data)
        IN  /\ Succeeded
            /\ Len(last.val.data) = F * P
            /\ \A f \in 1..F, p \in 1..P :
                last.val.data[(f - 1) * P + p] = Series(c, G.lmax, last.x, f, p)

\* a Clenshaw evaluation whose loop runs twice, at two points
C2_Witness ==
    /\ Returned("evaluate") /\ HasTensor /\ Succeeded
    /\ last.method = "clenshaw"
    /\ self.coefficients.shape[1] = 4
    /\ Len(last.x.data) = 2

\* C3 (as claimed): an object built from a Filter object holds, from then on, the
\* coefficient tensor computed at construction.
C3_CoefficientsAttached ==
    (pc # "new" /\ src.kind = "Filter") => HasTensor

\* C4 (as claimed): filter fails with a ValueError, before any diffusion step,
\* whenever the channel count of the signal differs from the Fin of the tensor.
C4_MismatchRejected ==
    (FilterCall /\ ~SameFin) =>
        /\ ~Succeeded
        /\ last.err.exc = "ValueError"
        /\ last.ndot = 0

\* C5 (as claimed): an object built from an array of coefficients of any number of
\* dimensions holds a tensor of exactly 3 dimensions.
C5_AlwaysThreeDims ==
    (pc # "new" /\ src.kind = "array") => HasTensor

\* C5 (amended): an object built from an array of 0, 1, 2 or 3 dimensions holds a
\* tensor of exactly 3 dimensions: the array's, followed by axes of length 1.
C5_UpToThreeDims ==
    (pc # "new" /\ src.kind = "array" /\ src.ndim <= 3) =>
        /\ HasTensor
        /\ self.coefficients.shape = src.shape \o Ones(3 - src.ndim)
        /\ self.Nf = self.coefficients.shape[2]

\* an object built from a vector of 4 coefficients
C5_Witness ==
    /\ pc = "idle"
    /\ src.kind = "array"
    /\ src.shape = <<4>>
    /\ self.coefficients.shape = <<4, 1, 1>>

Computed == pc = "computed" /\ last.op = "compute"

\* C6 (as claimed): for every order m >= 0 and every graph whose lmax is positive, the
\* coefficient computer returns m+1 coefficients, each a sum over the N quadrature
\* nodes j = 1..N (N = m+1 when not given).
C6_ComputesAllCoefficients ==
    (Computed /\ last.m >= 0 /\ last.had_lmax /\ last.lmax > 0) =>
        /\ Succeeded
        /\ Len(last.val) = last.m + 1
        /\ \A o \in 1..Len(last.val) :
            last.val[o].nodes = [j \in 1..(IF last.N = <<>> THEN last.m + 1 ELSE last.N[1]) |-> j]

\* C7 (as claimed): the coefficient computer fails, and returns no coefficient array,
\* for a negative order, and when the graph's lmax is missing or not positive.
\* (The claim names the exception, InvalidArgument; the formula asks only that the
\* call raises, so that a violation is a call that returns an array.)
C7_RejectsBadArguments ==
    (Computed /\ (last.m < 0 \/ ~last.had_lmax \/ last.lmax <= 0)) =>
        /\ ~Succeeded
        /\ last.err.exc # "none"

\* C8 (as claimed): evaluate with a method other than direct, recursive, clenshaw, and
\* filter with a method other than recursive, clenshaw, raise a ValueError, having
\* computed no term and run no diffusion or mixing step, and return nothing.
C8_UnknownMethodRejected ==
    /\ (Returned("evaluate") /\ last.method \notin {None} \cup EvaluateMethods) =>
            (~Succeeded /\ last.err.exc = "ValueError" /\ last.nterms = 0)
    /\ (Returned("filter") /\ last.method \notin {None} \cup FilterMethods) =>
            (~Succeeded /\ last.err.exc = "ValueError" /\ last.ndot = 0 /\ last.nmult = 0)

\* C9: a call of evaluate or of filter leaves the object (its coefficient tensor),
\* the graph (its Laplacian and lmax) and the caller's signal batch (its elements
\* and its shape) as they were.
C9_CallsChangeNothing ==
    [][(pc = "idle" /\ pc' = "done") => (self' = self /\ G' = G /\ sig' = sigIn')]_vars

\* a recursive filtering that has reshaped its buffers in every step of the loop
C9_Witness ==
    /\ FilterCall /\ SameFin /\ Succeeded
    /\ last.method = "recursive"
    /\ last.ndot = 3
    /\ sigIn.shape = <<2, 2, 2>>
    /\ sig = sigIn

\* C10: on a tensor (K, Fout, Fin) and a batch (M, Fin, N), filter returns a batch of
\* shape (M, Fout, N), with either method.
C10_OutputShape ==
    (FilterCall /\ SameFin) =>
        /\ Succeeded
        /\ last.val.shape = <<sigIn.shape[1], self.coefficients.shape[2], sigIn.shape[3]>>
        /\ Len(last.val.data) = Prod(last.val.shape)

\* two signals of one channel filtered into two channels
C10_Witness ==
    /\ FilterCall /\ SameFin /\ Succeeded
    /\ self.coefficients.shape = <<4, 2, 1>>
    /\ sigIn.shape = <<2, 1, 2>>
    /\ last.val.shape = <<2, 2, 2>>

\* a call of filter on a single coefficient c0 (K = 1, Fout = Fin = 1) and a batch
\* of one channel
OrderZeroCall ==
    /\ FilterCall
    /\ self.coefficients.shape = <<1, 1, 1>>
    /\ sigIn.shape[2] = 1

\* C11: filter with the single coefficient [c0] returns, with either method, the
\* batch c0 * signal, element by element, and returns it on every Laplacian.
C11_OrderZeroScales ==
    OrderZeroCall =>
        /\ Succeeded
        /\ last.val.shape = sigIn.shape
        /\ last.val.data =
                [j \in 1..Len(sigIn.data) |-> self.coefficients.data[1] * sigIn.data[j]]
        /\ \A g \in {h \in FilterGraphs : h.N = G.N} :
                /\ hasattr(filter(g, self, sigIn, last.method), "val")
                /\ filter(g, self, sigIn, last.method).val = last.val

\* a Clenshaw filtering of two signals by one coefficient, on a graph with an edge
C11_Witness ==
    /\ OrderZeroCall /\ Succeeded
    /\ last.method = "clenshaw"
    /\ sigIn.shape = <<2, 1, 2>>
    /\ G.N = 2
    /\ last.ndot = 1

\* x1 = dot(L, x0): the batch s multiplied by the rescaled Laplacian, signal by
\* signal and channel by channel
Diffused(s) ==
    Reshape(RMul(RescaleL(G), Reshape(s, <<s.shape[1] * s.shape[2], s.shape[3]>>)), s.shape)

\* every index read is one of 0..K-1, the K coefficients of the tensor
ReadsInRange ==
    \A i \in 1..Len(last.reads) : last.reads[i] \in 0..(self.coefficients.shape[1] - 1)

\* C12: with two coefficients, evaluate and filter read c[0] and c[1] only and return
\* c0 * x0 + c1 * x1 (x0 the ones or the signal, x1 the points or the diffused
\* signal), filter having run one diffusion step and two mixings; with one or two
\* coefficients every call returns, having read no index outside the tensor.
C12_OrderOneTwoTerms ==
    LET c == self.coefficients
        K == c.shape[1]
        F == c.shape[2] * c.shape[3]
        P == Len(last.x.data)
    IN  /\ (FilterCall /\ SameFin /\ K \in {1, 2}) =>
                /\ Succeeded
                /\ ReadsInRange
                /\ K = 2 =>
                    /\ {last.reads[i] : i \in 1..Len(last.reads)} = {0, 1}
                    /\ Len(last.reads) = 2
                    /\ last.ndot = 1
                    /\ last.nmult = 2
                    /\ last.val = Add(Einsum(Item(c, 0), sigIn),
                                      Einsum(Item(c, 1), Diffused(sigIn)))
        /\ (Returned("evaluate") /\ last.method \in {None, "recursive", "clenshaw"}
                /\ HasTensor /\ K \in {1, 2}) =>
                /\ Succeeded
                /\ ReadsInRange
                /\ K = 2 =>
                    /\ {last.reads[i] : i \in 1..Len(last.reads)} = {0, 1}
                    /\ Len(last.reads) = 2
                    /\ \A f \in 1..F, p \in 1..P :
                        last.val.data[(f - 1) * P + p] =
                            c.data[f] + c.data[F + f] * ((2 * last.x.data[p]) \div G.lmax - 1)

\* a Clenshaw filtering of two signals of two channels by two coefficients
C12_Witness ==
    /\ FilterCall /\ SameFin /\ Succeeded
    /\ last.method = "clenshaw"
    /\ self.coefficients.shape = <<2, 2, 2>>
    /\ sigIn.shape = <<2, 2, 2>>
    /\ last.reads = <<1, 0>>
    /\ last.ndot = 1

\* C13 (as claimed): a call of evaluate or of filter that names an existing method,
\* or none, never ends in the 'Unknown method' error, whatever fails inside the
\* method.
C13_UnknownMethodOnlyForUnknownNames ==
    /\ (Returned("filter") /\ last.method \in {None} \cup FilterMethods) =>
            last.err.msg # "Unknown method"
    /\ (Returned("evaluate") /\ last.method \in {None} \cup EvaluateMethods) =>
            last.err.msg # "Unknown method"

====
